---- MODULE Spec2Model ----
(***************************************************************************)
(* A model of ephemera (src/ephemera.go): a registry of ephemeral Docker   *)
(* containers and the reverse proxy that routes /demo/{id} to them.        *)
(*                                                                         *)
(* Tasks: one goroutine per /demo/new request (newHandler), one per        *)
(* /demo/{id} request (proxyHandler), one WaitKill goroutine per started   *)
(* container, and one administrative task that calls KillAll or Kill.      *)
(* Each action is one step of one goroutine between two points where       *)
(* another goroutine can observe or change the shared state.               *)
(***************************************************************************)
EXTENDS Integers, FiniteSets, Sequences, TLC

\* ---------------------------------------------------------------- bounds
MaxNew == 2        \* /demo/new requests, hence containers ever created
MaxProxy == 1      \* /demo/{id} requests
MaxAdminOps == 1   \* KillAll / explicit Kill calls of the administrative task

Names == 1..MaxNew           \* the uuids NewContainer can be given
NewReqs == 1..MaxNew
ProxyReqs == 1..MaxProxy
UnknownId == MaxNew + 1      \* an id no NewContainer call ever returns
ProxyIds == Names \cup {UnknownId}
NoHandle == 0                \* Container.ID before Start sets it (the empty string)

\* ----------------------------------------------------------------- tasks
NoTask == <<"none", 0>>
NewTask(r) == <<"new", r>>
WkTask(n) == <<"wk", n>>
AdminTask == <<"admin", 0>>
KTasks == {WkTask(n) : n \in Names} \cup {AdminTask}

VARIABLES
    alive,        \* the process runs (FALSE after log.Fatal)
    lock,         \* Ephemera.Mutex: the task holding it, or NoTask
    nextName,     \* the next uuid uuid.NewV4 returns
    containers,   \* Ephemera.containers: the keys of the map
    obj,          \* the Container objects, by Name
    docker,       \* the Docker daemon: state of the container of each name
    npc,          \* newHandler requests: position
    nname,        \* newHandler requests: Name of the container created (0: none yet)
    nresp,        \* newHandler requests: response sent
    nfail,        \* newHandler requests: the adapter failure Start met
    kpc,          \* WaitKill goroutines and the administrative task: position
    ktarget,      \* the container a task's Kill call is on
    amode,        \* administrative task: "none", "killall" or "kill"
    aops,         \* administrative task: operations begun
    kaInit,       \* KillAll: keys of the map when the range began
    kaVisited,    \* KillAll: keys the range has produced
    ppc,          \* proxyHandler requests: position
    pid,          \* proxyHandler requests: the {id} of the path
    presult,      \* proxyHandler requests: outcome
    pseen,        \* proxyHandler requests: what held of {id} when the lookup ran
    stopCalls,    \* StopContainer calls made by Kill, per container
    removedEver   \* keys ever deleted from the map

vars == <<alive, lock, nextName, containers, obj, docker, npc, nname, nresp, nfail,
          kpc, ktarget, amode, aops, kaInit, kaVisited, ppc, pid, presult,
          pseen, stopCalls, removedEver>>

newVars == <<npc, nname, nresp, nfail>>
killVars == <<kpc, ktarget, amode, aops, kaInit, kaVisited>>
proxyVars == <<ppc, pid, presult, pseen>>
histVars == <<stopCalls, removedEver>>

\* ------------------------------------------------------------- data model
\* &Container{e, Name, Image, TTL, Started: false, Config}: ID, IP and Proxy unset.
Container(name) == [Name |-> name, ID |-> NoHandle, IP |-> 0, Proxy |-> FALSE,
                    Started |-> FALSE]

\* uuid.NewV4().String(): a value never returned before.
uuidNewV4 == nextName

\* docker.CreateContainer(config, "ephemera-<Name>"): the handle of the new container.
CreateContainer(d, name) == [d EXCEPT ![name] = "created"]

\* docker.StartContainer(handle, hostConfig)
StartContainer(d, h) == [d EXCEPT ![h] = "running"]

\* docker.StopContainer(handle, 5): an error (ignored by Kill) on an unknown handle.
StopContainer(d, h) ==
    IF h # NoHandle /\ d[h] = "running" THEN [d EXCEPT ![h] = "stopped"] ELSE d

\* docker.RemoveContainer(handle, force, volumes): an error (ignored) on an unknown handle.
RemoveContainer(d, h) ==
    IF h # NoHandle /\ d[h] \in {"created", "running", "stopped"}
    THEN [d EXCEPT ![h] = "removed"] ELSE d

Init ==
    /\ alive = TRUE
    /\ lock = NoTask
    /\ nextName = 1
    /\ containers = {}
    /\ obj = [n \in Names |-> Container(n)]
    /\ docker = [n \in Names |-> "none"]
    /\ npc = [r \in NewReqs |-> "idle"]
    /\ nname = [r \in NewReqs |-> 0]
    /\ nresp = [r \in NewReqs |-> "none"]
    /\ nfail = [r \in NewReqs |-> "none"]
    /\ kpc = [t \in KTasks |-> IF t = AdminTask THEN "idle" ELSE "none"]
    /\ ktarget = [t \in KTasks |-> 0]
    /\ amode = "none"
    /\ aops = 0
    /\ kaInit = {}
    /\ kaVisited = {}
    /\ ppc = [p \in ProxyReqs |-> "idle"]
    /\ pid = [p \in ProxyReqs |-> UnknownId]
    /\ presult = [p \in ProxyReqs |-> "none"]
    /\ pseen = [p \in ProxyReqs |-> [found |-> FALSE, started |-> FALSE, stopped |-> FALSE]]
    /\ stopCalls = [n \in Names |-> 0]
    /\ removedEver = {}

\* ------------------------------------------------------------ NewContainer
\* e.Lock() of NewContainer, called by newHandler. The requests are numbered
\* in the order in which they take the lock.
NewLock(r) ==
    /\ alive /\ npc[r] = "idle" /\ lock = NoTask
    /\ \A q \in NewReqs : q < r => npc[q] # "idle"
    /\ lock' = NewTask(r)
    /\ npc' = [npc EXCEPT ![r] = "lock"]
    /\ UNCHANGED <<alive, nextName, containers, obj, docker, nname, nresp, nfail>>
    /\ UNCHANGED <<killVars, proxyVars, histVars>>

\* NewContainer with the Name taken from the image instead of a new uuid: every
\* container of the registry's one image gets the same Name.
NewContainer_NameFromImage(r) ==
    /\ alive /\ npc[r] = "lock" /\ lock = NewTask(r)
    /\ LET name == 1 IN
        /\ obj' = [obj EXCEPT ![name] = Container(name)]
        /\ containers' = containers \cup {name}
        /\ nname' = [nname EXCEPT ![r] = name]
    /\ nextName' = nextName + 1
    /\ lock' = NoTask
    /\ npc' = [npc EXCEPT ![r] = "start"]
    /\ UNCHANGED <<alive, docker, nresp, nfail>>
    /\ UNCHANGED <<killVars, proxyVars, histVars>>

\* The body of NewContainer and its deferred e.Unlock(): the container is built
\* under a new uuid and stored in the map, whatever the map held under that key.
NewContainer(r) ==
    /\ alive /\ npc[r] = "lock" /\ lock = NewTask(r)
    /\ LET name == uuidNewV4 IN
        /\ obj' = [obj EXCEPT ![name] = Container(name)]
        /\ containers' = containers \cup {name}
        /\ nname' = [nname EXCEPT ![r] = name]
    /\ nextName' = nextName + 1
    /\ lock' = NoTask
    /\ npc' = [npc EXCEPT ![r] = "start"]
    /\ UNCHANGED <<alive, docker, nresp, nfail>>
    /\ UNCHANGED <<killVars, proxyVars, histVars>>

\* ------------------------------------------------------------------- Start
\* log.Fatal(err): the process exits; no response is written.
Fatal(r, what) ==
    /\ alive' = FALSE
    /\ nfail' = [nfail EXCEPT ![r] = what]
    /\ npc' = [npc EXCEPT ![r] = "fatal"]
    /\ UNCHANGED <<docker, obj>>

\* Start, up to CreateContainer: a no-op on a started container.
StartCreate(r) ==
    /\ alive /\ npc[r] = "start"
    /\ IF obj[nname[r]].Started
       THEN /\ npc' = [npc EXCEPT ![r] = "spawn"]
            /\ UNCHANGED <<alive, docker, obj, nfail>>
       ELSE \/ /\ docker' = CreateContainer(docker, nname[r])
               /\ npc' = [npc EXCEPT ![r] = "created"]
               /\ UNCHANGED <<alive, obj, nfail>>
            \/ Fatal(r, "create")
    /\ UNCHANGED <<lock, nextName, containers, nname, nresp>>
    /\ UNCHANGED <<killVars, proxyVars, histVars>>

\* Start: StartContainer.
StartStart(r) ==
    /\ alive /\ npc[r] = "created"
    /\ \/ /\ docker' = StartContainer(docker, nname[r])
          /\ npc' = [npc EXCEPT ![r] = "inspect"]
          /\ UNCHANGED <<alive, obj, nfail>>
       \/ Fatal(r, "start")
    /\ UNCHANGED <<lock, nextName, containers, nname, nresp>>
    /\ UNCHANGED <<killVars, proxyVars, histVars>>

\* Start: the sleep, InspectContainer, and the writes of IP, ID, Started.
\* The error of InspectContainer is dropped: on failure info is nil and
\* info.NetworkSettings panics, which ends this request alone.
StartInspect(r) ==
    /\ alive /\ npc[r] = "inspect"
    /\ \/ /\ obj' = [obj EXCEPT ![nname[r]].IP = nname[r],
                                ![nname[r]].ID = nname[r],
                                ![nname[r]].Started = TRUE]
          /\ npc' = [npc EXCEPT ![r] = "spawn"]
          /\ UNCHANGED <<nfail, nresp>>
       \/ /\ nfail' = [nfail EXCEPT ![r] = "inspect"]
          /\ nresp' = [nresp EXCEPT ![r] = "aborted"]
          /\ npc' = [npc EXCEPT ![r] = "done"]
          /\ UNCHANGED obj
    /\ UNCHANGED <<alive, lock, nextName, containers, docker, nname>>
    /\ UNCHANGED <<killVars, proxyVars, histVars>>

\* -------------------------------------------------------------- newHandler
\* go c.WaitKill()
SpawnWaitKill(r) ==
    /\ alive /\ npc[r] = "spawn"
    /\ kpc' = [kpc EXCEPT ![WkTask(nname[r])] = "waiting"]
    /\ npc' = [npc EXCEPT ![r] = "proxy"]
    /\ UNCHANGED <<alive, lock, nextName, containers, obj, docker, nname, nresp, nfail>>
    /\ UNCHANGED <<ktarget, amode, aops, kaInit, kaVisited>>
    /\ UNCHANGED <<proxyVars, histVars>>

\* c.Proxy = http.StripPrefix("/demo/"+c.Name, NewSingleHostReverseProxy(u))
SetProxy(r) ==
    /\ alive /\ npc[r] = "proxy"
    /\ obj' = [obj EXCEPT ![nname[r]].Proxy = TRUE]
    /\ npc' = [npc EXCEPT ![r] = "respond"]
    /\ UNCHANGED <<alive, lock, nextName, containers, docker, nname, nresp, nfail>>
    /\ UNCHANGED <<killVars, proxyVars, histVars>>

\* The redirect to /demo/<Name> (307), or the Name as the body when redirect=0.
Respond(r) ==
    /\ alive /\ npc[r] = "respond"
    /\ \E mode \in {"redirect", "name"} : nresp' = [nresp EXCEPT ![r] = mode]
    /\ npc' = [npc EXCEPT ![r] = "done"]
    /\ UNCHANGED <<alive, lock, nextName, containers, obj, docker, nname, nfail>>
    /\ UNCHANGED <<killVars, proxyVars, histVars>>

\* ---------------------------------------------------------------- WaitKill
\* <-time.After(c.TTL) returns; c.Kill() is called.
WaitKill(n) ==
    /\ alive /\ kpc[WkTask(n)] = "waiting"
    /\ kpc' = [kpc EXCEPT ![WkTask(n)] = "lock"]
    /\ ktarget' = [ktarget EXCEPT ![WkTask(n)] = n]
    /\ UNCHANGED <<alive, lock, nextName, containers, obj, docker>>
    /\ UNCHANGED <<amode, aops, kaInit, kaVisited>>
    /\ UNCHANGED <<newVars, proxyVars, histVars>>

\* -------------------------------------------------------------------- Kill
\* Kill without its c.e.Lock(): the task goes on to the adapter calls and the
\* delete without the lock.
KillLock_Missing(t) ==
    /\ alive /\ kpc[t] = "lock"
    /\ kpc' = [kpc EXCEPT ![t] = "stop"]
    /\ UNCHANGED <<alive, lock, nextName, containers, obj, docker>>
    /\ UNCHANGED <<ktarget, amode, aops, kaInit, kaVisited>>
    /\ UNCHANGED <<newVars, proxyVars, histVars>>

\* c.e.Lock()
KillLock(t) ==
    /\ alive /\ kpc[t] = "lock" /\ lock = NoTask
    /\ lock' = t
    /\ kpc' = [kpc EXCEPT ![t] = "stop"]
    /\ UNCHANGED <<alive, nextName, containers, obj, docker>>
    /\ UNCHANGED <<ktarget, amode, aops, kaInit, kaVisited>>
    /\ UNCHANGED <<newVars, proxyVars, histVars>>

\* c.e.docker.StopContainer(c.ID, 5)
KillStop(t) ==
    /\ alive /\ kpc[t] = "stop"
    /\ LET c == ktarget[t] IN
        /\ docker' = StopContainer(docker, obj[c].ID)
        /\ stopCalls' = [stopCalls EXCEPT ![c] = @ + 1]
    /\ kpc' = [kpc EXCEPT ![t] = "remove"]
    /\ UNCHANGED <<alive, lock, nextName, containers, obj>>
    /\ UNCHANGED <<ktarget, amode, aops, kaInit, kaVisited>>
    /\ UNCHANGED <<newVars, proxyVars, removedEver>>

\* c.e.docker.RemoveContainer(c.ID, true, true)
KillRemove(t) ==
    /\ alive /\ kpc[t] = "remove"
    /\ docker' = RemoveContainer(docker, obj[ktarget[t]].ID)
    /\ kpc' = [kpc EXCEPT ![t] = "delete"]
    /\ UNCHANGED <<alive, lock, nextName, containers, obj>>
    /\ UNCHANGED <<ktarget, amode, aops, kaInit, kaVisited>>
    /\ UNCHANGED <<newVars, proxyVars, histVars>>

\* Kill that also clears the fields of the container it tears down.
KillDelete_ClearsFields(t) ==
    /\ alive /\ kpc[t] = "delete"
    /\ containers' = containers \ {ktarget[t]}
    /\ removedEver' = removedEver \cup ({ktarget[t]} \cap containers)
    /\ obj' = [obj EXCEPT ![ktarget[t]].IP = 0, ![ktarget[t]].Proxy = FALSE]
    /\ lock' = NoTask
    /\ kpc' = [kpc EXCEPT ![t] = IF t # AdminTask THEN "done"
                                 ELSE IF amode = "killall" THEN "range" ELSE "idle"]
    /\ amode' = IF t = AdminTask /\ amode = "kill" THEN "none" ELSE amode
    /\ UNCHANGED <<alive, nextName, docker>>
    /\ UNCHANGED <<ktarget, aops, kaInit, kaVisited>>
    /\ UNCHANGED <<newVars, proxyVars, stopCalls>>

\* Kill without its deferred c.e.Unlock(): the lock stays with the task.
KillDelete_NoUnlock(t) ==
    /\ alive /\ kpc[t] = "delete"
    /\ containers' = containers \ {ktarget[t]}
    /\ removedEver' = removedEver \cup ({ktarget[t]} \cap containers)
    /\ kpc' = [kpc EXCEPT ![t] = IF t # AdminTask THEN "done"
                                 ELSE IF amode = "killall" THEN "range" ELSE "idle"]
    /\ amode' = IF t = AdminTask /\ amode = "kill" THEN "none" ELSE amode
    /\ UNCHANGED <<alive, lock, nextName, obj, docker>>
    /\ UNCHANGED <<ktarget, aops, kaInit, kaVisited>>
    /\ UNCHANGED <<newVars, proxyVars, stopCalls>>

\* delete(c.e.containers, c.Name) and the deferred c.e.Unlock(); Kill returns to
\* WaitKill (which ends), to the range of KillAll, or to the explicit caller.
KillDelete(t) ==
    /\ alive /\ kpc[t] = "delete"
    /\ containers' = containers \ {ktarget[t]}
    /\ removedEver' = removedEver \cup ({ktarget[t]} \cap containers)
    /\ lock' = NoTask
    /\ kpc' = [kpc EXCEPT ![t] = IF t # AdminTask THEN "done"
                                 ELSE IF amode = "killall" THEN "range" ELSE "idle"]
    /\ amode' = IF t = AdminTask /\ amode = "kill" THEN "none" ELSE amode
    /\ UNCHANGED <<alive, nextName, obj, docker>>
    /\ UNCHANGED <<ktarget, aops, kaInit, kaVisited>>
    /\ UNCHANGED <<newVars, proxyVars, stopCalls>>

\* ----------------------------------------------------------------- KillAll
\* KillAll is called: the range over e.containers begins (no lock is taken).
KillAllBegin ==
    /\ alive /\ kpc[AdminTask] = "idle" /\ aops < MaxAdminOps
    /\ aops' = aops + 1
    /\ amode' = "killall"
    /\ kaInit' = containers
    /\ kaVisited' = {}
    /\ kpc' = [kpc EXCEPT ![AdminTask] = "range"]
    /\ UNCHANGED <<alive, lock, nextName, containers, obj, docker, ktarget>>
    /\ UNCHANGED <<newVars, proxyVars, histVars>>

\* The range produces an entry not produced yet, and c.Kill() is called on it.
\* An entry deleted before it is reached is not produced.
KillAllNext ==
    /\ alive /\ kpc[AdminTask] = "range"
    /\ \E c \in containers \ kaVisited :
        /\ kaVisited' = kaVisited \cup {c}
        /\ ktarget' = [ktarget EXCEPT ![AdminTask] = c]
    /\ kpc' = [kpc EXCEPT ![AdminTask] = "lock"]
    /\ UNCHANGED <<alive, lock, nextName, containers, obj, docker>>
    /\ UNCHANGED <<amode, aops, kaInit>>
    /\ UNCHANGED <<newVars, proxyVars, histVars>>

\* The range ends: every entry that was in the map when it began has been
\* produced or deleted; an entry inserted during the range may be skipped.
KillAllReturn ==
    /\ alive /\ kpc[AdminTask] = "range"
    /\ (containers \cap kaInit) \ kaVisited = {}
    /\ kpc' = [kpc EXCEPT ![AdminTask] = "idle"]
    /\ amode' = "none"
    /\ UNCHANGED <<alive, lock, nextName, containers, obj, docker>>
    /\ UNCHANGED <<ktarget, aops, kaInit, kaVisited>>
    /\ UNCHANGED <<newVars, proxyVars, histVars>>

\* An explicit c.Kill() on a container NewContainer has returned.
ExplicitKill(c) ==
    /\ alive /\ kpc[AdminTask] = "idle" /\ aops < MaxAdminOps
    /\ c < nextName
    /\ aops' = aops + 1
    /\ amode' = "kill"
    /\ ktarget' = [ktarget EXCEPT ![AdminTask] = c]
    /\ kpc' = [kpc EXCEPT ![AdminTask] = "lock"]
    /\ UNCHANGED <<alive, lock, nextName, containers, obj, docker>>
    /\ UNCHANGED <<kaInit, kaVisited>>
    /\ UNCHANGED <<newVars, proxyVars, histVars>>

\* ------------------------------------------------------------ proxyHandler
\* The lookup e.containers[id] (no lock is taken). A miss is logged and the
\* handler returns having written nothing: net/http answers 200 with no body.
ProxyLookup(p, id) ==
    /\ alive /\ ppc[p] = "idle"
    /\ pid' = [pid EXCEPT ![p] = id]
    /\ pseen' = [pseen EXCEPT ![p] =
                   [found |-> id \in containers,
                    started |-> id \in Names /\ obj[id].Started,
                    stopped |-> id \in Names /\ docker[id] \in {"stopped", "removed"}]]
    /\ IF id \in containers
       THEN /\ ppc' = [ppc EXCEPT ![p] = "found"]
            /\ UNCHANGED presult
       ELSE /\ ppc' = [ppc EXCEPT ![p] = "done"]
            /\ presult' = [presult EXCEPT ![p] = "ok200"]
    /\ UNCHANGED <<alive, lock, nextName, containers, obj, docker>>
    /\ UNCHANGED <<newVars, killVars, histVars>>

\* c.Proxy.ServeHTTP(w, r): a nil Proxy panics; otherwise the request is sent
\* to http://<IP>:8080, which answers only while the container runs.
ProxyServe(p) ==
    /\ alive /\ ppc[p] = "found"
    /\ presult' = [presult EXCEPT ![p] =
                      IF ~obj[pid[p]].Proxy THEN "panic"
                      ELSE IF docker[pid[p]] = "running" THEN "forwarded"
                      ELSE "forwardedStale"]
    /\ ppc' = [ppc EXCEPT ![p] = "done"]
    /\ UNCHANGED <<alive, lock, nextName, containers, obj, docker>>
    /\ UNCHANGED <<pid, pseen>>
    /\ UNCHANGED <<newVars, killVars, histVars>>

\* -------------------------------------------------------------------- Next
Next ==
    \/ \E r \in NewReqs : NewLock(r)
    \/ \E r \in NewReqs : NewContainer(r)
    \/ \E r \in NewReqs : StartCreate(r)
    \/ \E r \in NewReqs : StartStart(r)
    \/ \E r \in NewReqs : StartInspect(r)
    \/ \E r \in NewReqs : SpawnWaitKill(r)
    \/ \E r \in NewReqs : SetProxy(r)
    \/ \E r \in NewReqs : Respond(r)
    \/ \E n \in Names : WaitKill(n)
    \/ \E t \in KTasks : KillLock(t)
    \/ \E t \in KTasks : KillStop(t)
    \/ \E t \in KTasks : KillRemove(t)
    \/ \E t \in KTasks : KillDelete(t)
    \/ KillAllBegin
    \/ KillAllNext
    \/ KillAllReturn
    \/ \E c \in Names : ExplicitKill(c)
    \/ \E p \in ProxyReqs, id \in ProxyIds : ProxyLookup(p, id)
    \/ \E p \in ProxyReqs : ProxyServe(p)

Spec == Init /\ [][Next]_vars

\* ======================================================================
\* Derived notions the claims are stated in
\* ======================================================================
\* The backing process of container n exists and has not been stopped or removed.
Running(n) == docker[n] = "running"
\* The outcomes of a proxy request in which c.Proxy.ServeHTTP sent it on.
Forwarded(p) == presult[p] \in {"forwarded", "forwardedStale"}
\* No task can take a step any more: the state is the final one of the run.
Final == ~ENABLED Next

\* ---------------------------------------------------------------------
\* C1: for every instance, under any interleaving of explicit Kill, the
\* TTL-driven Kill of WaitKill and the KillAll sweep, the adapter teardown
\* sequence (StopContainer then RemoveContainer) is invoked at most once;
\* a later teardown attempt makes no adapter call.
C1_TeardownOnce == \A n \in Names : stopCalls[n] <= 1

\* ---------------------------------------------------------------------
\* C2: the proxy endpoint never calls ServeHTTP on an unset (nil) Proxy: a
\* request for an id that was never created, has expired, or is still
\* Pending never ends in a nil dereference.
C2_NoNilProxy == \A p \in ProxyReqs : presult[p] # "panic"

\* ---------------------------------------------------------------------
\* C3: a proxy request that arrives after the adapter's stop call for its
\* instance is never forwarded to the (stale) address of that instance.
C3_NoForwardAfterStop ==
    \A p \in ProxyReqs : pseen[p].stopped => ~Forwarded(p)

\* ---------------------------------------------------------------------
\* C4: a proxy request that arrives once Start has succeeded for its
\* instance (Started, address set), and whose instance is in the mapping
\* when it arrives and when it is answered, is forwarded successfully.
C4_StartedIsRoutable ==
    \A p \in ProxyReqs :
        (ppc[p] = "done" /\ pseen[p].found /\ pseen[p].started /\ pid[p] \in containers)
            => presult[p] = "forwarded"

\* ---------------------------------------------------------------------
\* C5: every instance created and started through the creation endpoint
\* (its WaitKill task was spawned) is eventually torn down: no run ends
\* with it still in the mapping or with no stop call made for it.
C5_ExpiryTearsDown ==
    \A n \in Names :
        (Final /\ kpc[WkTask(n)] # "none")
            => (n \notin containers /\ stopCalls[n] > 0 /\ ~Running(n))

\* ---------------------------------------------------------------------
\* C6: when KillAll returns, every instance that was in the mapping when it
\* was called is torn down (process stopped and removed, entry deleted) and
\* no backing process created by the registry is left running.
C6_KillAllLeavesNothing ==
    [][KillAllReturn =>
        /\ \A n \in kaInit : n \notin containers' /\ docker'[n] \in {"none", "removed"}
        /\ \A n \in Names : ~Running(n)']_vars

\* ---------------------------------------------------------------------
\* C7: when CreateContainer or StartContainer fails during Start, the
\* system keeps running and the request is answered with a server error,
\* never with a success response.
C7_FailureIsAnswered ==
    \A r \in NewReqs :
        nfail[r] \in {"create", "start"}
            => (alive /\ (npc[r] \in {"done", "fatal"} => nresp[r] = "error"))

\* ---------------------------------------------------------------------
\* C8: after a failed Start, the entry NewContainer inserted does not stay
\* in the mapping for ever: no run ends with it still there.
C8_FailedEntryRemoved ==
    \A r \in NewReqs :
        (Final /\ nfail[r] # "none") => nname[r] \notin containers

\* ---------------------------------------------------------------------
\* C9: every NewContainer call returns a Name different from every Name
\* issued before, also from those of instances torn down since; so no
\* insertion overwrites an entry and a removed key never is in the mapping
\* again.
C9_NamesUnique ==
    /\ \A r1, r2 \in NewReqs :
          (r1 # r2 /\ nname[r1] # 0 /\ nname[r2] # 0) => nname[r1] # nname[r2]
    /\ removedEver \cap containers = {}

\* Two Names have been issued, the second after the first entry was created;
\* the first has been removed from the mapping and the second is in it.
C9_Witness ==
    \E r1, r2 \in NewReqs :
        /\ nname[r1] # 0 /\ nname[r2] # 0 /\ nname[r1] < nname[r2]
        /\ nname[r1] \in removedEver
        /\ nname[r2] \in containers

\* ---------------------------------------------------------------------
\* C10: a proxy request whose id is not in the mapping is answered with a
\* not-found-class error response, not with a success response.
C10_MissIsNotFound ==
    \A p \in ProxyReqs :
        (ppc[p] = "done" /\ ~pseen[p].found) => presult[p] = "notfound"

\* ======================================================================
\* Positions with respect to the lock and the map
\* ======================================================================
\* All tasks that ever take the lock.
LockTasks == {NewTask(r) : r \in NewReqs} \cup KTasks
\* Task t is between its Lock() and its Unlock().
InCritical(t) ==
    IF t[1] = "new" THEN npc[t[2]] = "lock"
    ELSE kpc[t] \in {"stop", "remove", "delete"}
\* Task t is at its Lock() call.
WantsLock(t) ==
    IF t[1] = "new"
    THEN npc[t[2]] = "idle" /\ \A q \in NewReqs : q < t[2] => npc[q] # "idle"
    ELSE kpc[t] = "lock"
\* Task t's next step is an adapter call made inside Kill.
AtAdapterCall(t) == t \in KTasks /\ kpc[t] \in {"stop", "remove"}
\* Task t's next step writes the map: the insertion or the delete.
MapWriter(t) ==
    IF t[1] = "new" THEN npc[t[2]] = "lock" ELSE kpc[t] = "delete"
\* A task whose next step reads the map without the lock: the lookup of a
\* proxy request, or the range of KillAll between two entries.
ProxyReader(p) == ppc[p] = "idle"
RangeReader == kpc[AdminTask] = "range"

\* ---------------------------------------------------------------------
\* C11: the registry lock is never held while a call into the Runtime
\* Adapter is in progress: no task makes an adapter call between its Lock()
\* and its Unlock().
C11_NoLockAcrossAdapter ==
    \A t \in KTasks : AtAdapterCall(t) => lock # t

\* ---------------------------------------------------------------------
\* C12: no read of the mapping (the lookup of proxyHandler, the range of
\* KillAll) can happen at the same time as an insertion by NewContainer or
\* a deletion by Kill: no state has a reader and a writer both at their
\* access of the map.
C12_NoReadWriteRace ==
    \A t \in LockTasks :
        (alive /\ MapWriter(t)) =>
            /\ \A p \in ProxyReqs : ~ProxyReader(p)
            /\ (t # AdminTask => ~RangeReader)

\* ---------------------------------------------------------------------
\* C13: every mutation of the mapping (the insertion of NewContainer, the
\* delete of Kill) and every step of an instance's teardown (stop, remove)
\* is made by a task that holds the registry lock, and at most one task is
\* between its Lock() and its Unlock() at any time.
TaskSteps(t) ==
    IF t[1] = "new" THEN npc'[t[2]] # npc[t[2]] ELSE kpc'[t] # kpc[t]
TeardownStep ==
    \/ stopCalls' # stopCalls
    \/ \E n \in Names : docker'[n] # docker[n] /\ docker'[n] \in {"stopped", "removed"}
C13_MutationsUnderLock ==
    /\ [](/\ \A t \in LockTasks : InCritical(t) => lock = t
          /\ Cardinality({t \in LockTasks : InCritical(t)}) <= 1)
    /\ [][(containers' # containers \/ TeardownStep)
            => (lock # NoTask /\ InCritical(lock) /\ TaskSteps(lock))]_vars

\* A Kill is at its delete, holding the lock, with the entry still in the
\* mapping, while another task waits at its Lock().
C13_Witness ==
    \E t1, t2 \in LockTasks :
        /\ t1 # t2 /\ t1 \in KTasks
        /\ kpc[t1] = "delete" /\ lock = t1 /\ ktarget[t1] \in containers
        /\ WantsLock(t2)

\* ---------------------------------------------------------------------
\* C14: Start creates a backing process only from Pending: called on an
\* instance that has been killed (its entry deleted by Kill), started before
\* or not, it makes no adapter call and changes no field of the instance.
C14_StartOnlyFromPending ==
    [][\A r \in NewReqs :
          (npc[r] = "start" /\ npc'[r] # "start" /\ nname[r] \in removedEver)
              => (npc'[r] = "spawn" /\ docker' = docker /\ obj' = obj)]_vars

\* ---------------------------------------------------------------------
\* C16: Terminated is terminal: once Kill has completed for an instance it
\* never again has an entry in the mapping and never again has a live
\* backing process.
C16_TerminatedIsTerminal ==
    \A n \in removedEver : n \notin containers /\ ~Running(n)

\* ---------------------------------------------------------------------
\* C17: no orphaned backing process: every backing process the adapter has
\* started and not yet stopped belongs to an instance that has an entry in
\* the mapping.
C17_NoOrphanProcess ==
    \A n \in Names : Running(n) => n \in containers

\* ---------------------------------------------------------------------
\* C18: Kill calls StopContainer and RemoveContainer only with a handle
\* that CreateContainer returned for the instance, never with the unset
\* (empty) Container.ID.
C18_KillHasHandle ==
    [][\A t \in KTasks :
          (kpc[t] \in {"stop", "remove"} /\ kpc'[t] # kpc[t])
              => obj[ktarget[t]].ID # NoHandle]_vars

C19_FailureIsIsolated ==
    \A r \in NewReqs, n \in Names :
        (nfail[r] # "none" /\ n # nname[r]) =>
            /\ kpc[WkTask(n)] = "waiting" => ENABLED WaitKill(n)
            /\ (n \in containers /\ Running(n) /\ obj[n].Proxy) =>
                  \A p \in ProxyReqs : ppc[p] = "idle" => ENABLED ProxyLookup(p, n)

\* ---------------------------------------------------------------------
\* C20: the system is deadlock-free on the registry lock: while the process
\* runs, the lock is held only by a task inside its critical section, which
\* can take its next step towards the Unlock(); a task at its Lock() can
\* take the lock whenever it is free; and a KillAll sweep between two
\* entries can go on or return. So every Kill and every sweep terminates.
HolderCanStep ==
    IF lock[1] = "new" THEN ENABLED NewContainer(lock[2])
    ELSE ENABLED (KillStop(lock) \/ KillRemove(lock) \/ KillDelete(lock))
CanAcquire(t) ==
    IF t[1] = "new" THEN ENABLED NewLock(t[2]) ELSE ENABLED KillLock(t)
C20_NoLockDeadlock ==
    alive =>
        /\ lock # NoTask => (InCritical(lock) /\ HolderCanStep)
        /\ \A t \in LockTasks : (WantsLock(t) /\ lock = NoTask) => CanAcquire(t)
        /\ \A t \in LockTasks : InCritical(t) => lock = t
        /\ kpc[AdminTask] = "range" => ENABLED (KillAllNext \/ KillAllReturn)

\* A Kill of the KillAll sweep holds the lock while the TTL-driven Kill of a
\* container and a creation request both wait at their Lock().
C20_Witness ==
    \E n \in Names, r \in NewReqs :
        /\ alive /\ lock = AdminTask /\ amode = "killall"
        /\ kpc[AdminTask] \in {"stop", "remove", "delete"}
        /\ kpc[WkTask(n)] = "lock"
        /\ WantsLock(NewTask(r))

====
